---- MODULE Spec2Model ----
(***************************************************************************)
(* Voice-to-MIDI note segmentation (voice_to_midi_service.py) and the MIDI *)
(* track encoder of the export endpoint (exports.py).                      *)
(*                                                                         *)
(* Units.  A time of k milliseconds stands for the double k/1000.0: the    *)
(* pitch tracker is called with step_size=10, so time[i] = i*10/1000.0.    *)
(* Frequencies are whole Hz.  Confidences are permille (909 stands for     *)
(* 0.909).                                                                 *)
(***************************************************************************)
EXTENDS Integers, Sequences, FiniteSets

(***************************************************************************)
(* Bounds of the model.                                                    *)
(***************************************************************************)
MaxFrames == 3
MaxCrepeFrames == 10
MaxTracks == 2
MaxNotes == 3
MaxRequests == 2
MaxSparseFrames == 4

(***************************************************************************)
(* Program constants.                                                      *)
(***************************************************************************)
min_confidence == 600
min_note_duration_ms == 50
step_size == 10

(***************************************************************************)
(* Frame inputs.  Spec draws every frame from FrameTimes x Freqs x Confs:  *)
(* the pitch tracker is an external source, so times may repeat or go      *)
(* back, and frequencies may lie outside the MIDI range.  SpecCrepe keeps  *)
(* the time grid of crepe.predict (time[i] = i * step_size).               *)
(***************************************************************************)
FrameTimes == {0, 10, 60}
Freqs == {0, 5, 440, 523, 13000}
Confs == {500, 600, 909}
CrepeFreqs == {0, 440, 523}
CrepeConfs == {900}
SparseTimes == {0, 60, 120, 180}

(* process_voice_to_midi *)
VARIABLES frames, current_note, midi_notes, status, pc

svars == <<frames, current_note, midi_notes, status, pc>>

(* export_project *)
VARIABLES tempo_bpm, midi_tracks, mid, sorted_notes, current_time_ticks, epc,
          response, midi_file, mido_build

evars == <<tempo_bpm, midi_tracks, mid, sorted_notes, current_time_ticks, epc,
           response, midi_file, mido_build>>

(* the HTTP endpoints *)
VARIABLES files, log, current_user, apc, reading, sending, exporting

avars == <<files, log, current_user, apc, reading, sending, exporting>>

vars == <<svars, evars, avars>>

None == <<>>

Last(q) == q[Len(q)]

(***************************************************************************)
(* freq_to_midi: int(round(69 + 12*log2(freq/440))), for freq in whole Hz. *)
(* The logarithm is evaluated by octave reduction: freq = num/den, den a   *)
(* power of two, is doubled or halved until OctaveLow <= num/den <         *)
(* OctaveHigh, and is then compared with the thirteen rounding boundaries  *)
(* 440*2^((k-0.5)/12) Hz, k = 0..12, of the pitches 69..80.  The           *)
(* boundaries are irrational; SemitoneBounds holds their floors in units   *)
(* of 1/Precision Hz, and num*(Precision/den) is a whole number, so the    *)
(* comparison is exact for 1 <= freq < OctaveHigh*Precision Hz.            *)
(***************************************************************************)
Precision == 1048576

OctaveLow == 428

OctaveHigh == 856

SemitoneBounds == <<448239033, 474892713, 503131303, 533049048, 564745794,
                    598327326, 633905720, 671599716, 711535113, 753845193,
                    798671161, 846162619, 896478067>>

RECURSIVE Semitones(_, _)
Semitones(num, den) ==
    IF num \div den < OctaveLow THEN Semitones(2 * num, den) - 12
    ELSE IF num \div den >= OctaveHigh THEN Semitones(num, 2 * den) + 12
    ELSE Cardinality({k \in 1..13 :
                         num * (Precision \div den) > SemitoneBounds[k]}) - 1

freq_to_midi(freq) ==
    IF freq <= 0 THEN 0 ELSE 69 + Semitones(freq, 1)

(* Variant: the product is rounded to the nearest integer, not truncated. *)
Velocity_rounded(c) == ((c * 100 + 500) \div 1000) + 27

(***************************************************************************)
(* int(c * 100) + 27 for a confidence c given in permille.                 *)
(***************************************************************************)
Velocity(c) == ((c * 100) \div 1000) + 27

(* Variant: the confidence is not tested. *)
Accepted_nogate(f, c) == f > 0

(* Variant: the frequency is not tested. *)
Accepted_anyfreq(f, c) == c >= min_confidence

Accepted(f, c) == c >= min_confidence /\ f > 0

(***************************************************************************)
(* note_duration * 1000 >= min_note_duration_ms, where note_duration is    *)
(* the double t/1000.0 - start/1000.0.  The doubles nearest to two grid    *)
(* times 50 ms apart are not always 0.05 apart: for the pairs of           *)
(* BelowThreshold their difference is 0.0499999999999999... (0.06 - 0.01   *)
(* is 0.049999999999999996), exactly and as computed, and the product is   *)
(* below 50.0.  The table holds every such pair of times k * 10 ms from 0  *)
(* to 1000 ms; for every other pair of grid times in that range the        *)
(* comparison agrees with the comparison of the integers.  Times beyond    *)
(* 1000 ms are outside the model.                                          *)
(***************************************************************************)
BelowThreshold ==
    {<<10, 60>>, <<40, 90>>, <<70, 120>>, <<100, 150>>, <<130, 180>>,
     <<140, 190>>, <<160, 210>>, <<170, 220>>, <<190, 240>>, <<200, 250>>,
     <<240, 290>>, <<250, 300>>, <<260, 310>>, <<270, 320>>, <<280, 330>>,
     <<300, 350>>, <<310, 360>>, <<320, 370>>, <<330, 380>>, <<340, 390>>,
     <<360, 410>>, <<370, 420>>, <<380, 430>>, <<390, 440>>, <<400, 450>>,
     <<420, 470>>, <<430, 480>>, <<440, 490>>, <<450, 500>>, <<460, 510>>,
     <<520, 570>>, <<530, 580>>, <<540, 590>>, <<550, 600>>, <<560, 610>>,
     <<640, 690>>, <<650, 700>>, <<660, 710>>, <<670, 720>>, <<680, 730>>,
     <<770, 820>>, <<780, 830>>, <<790, 840>>, <<800, 850>>, <<810, 860>>,
     <<890, 940>>, <<900, 950>>, <<910, 960>>, <<920, 970>>, <<930, 980>>}

(* Variant: any positive duration is emitted. *)
LongEnough_any(start, t) == t - start > 0

LongEnough(start, t) ==
    /\ t - start >= min_note_duration_ms
    /\ <<start, t>> \notin BelowThreshold

(***************************************************************************)
(* round(x, 3) of a time in seconds: the times of the model are whole      *)
(* milliseconds, the nearest multiple of one millisecond is taken.         *)
(***************************************************************************)
Round3(us) == (us + 500) \div 1000

(* Variant: a note opened while another is open keeps that note's start. *)
NewNote_merge(t, f, c) ==
    [pitch |-> freq_to_midi(f),
     start_time |-> IF current_note # None THEN current_note[1].start_time ELSE t,
     velocity |-> Velocity(c), raw_confidence |-> c]

NewNote(t, f, c) ==
    [pitch |-> freq_to_midi(f), start_time |-> t,
     velocity |-> Velocity(c), raw_confidence |-> c]

(* Variant: the note ends one frame step before the closing frame. *)
Closed_prev(cn, t) ==
    IF LongEnough(cn.start_time, t)
    THEN <<[pitch |-> cn.pitch,
            start_time |-> Round3(cn.start_time * 1000),
            duration |-> Round3((t - step_size - cn.start_time) * 1000),
            velocity |-> cn.velocity]>>
    ELSE <<>>

(* Variant: the note lasts one frame step beyond the closing frame. *)
Closed_late(cn, t) ==
    IF LongEnough(cn.start_time, t)
    THEN <<[pitch |-> cn.pitch,
            start_time |-> Round3(cn.start_time * 1000),
            duration |-> Round3((t + step_size - cn.start_time) * 1000),
            velocity |-> cn.velocity]>>
    ELSE <<>>

(***************************************************************************)
(* The note appended to midi_notes when current_note is closed at time t,  *)
(* or nothing when it is too short.                                        *)
(***************************************************************************)
Closed(cn, t) ==
    IF LongEnough(cn.start_time, t)
    THEN <<[pitch |-> cn.pitch,
            start_time |-> Round3(cn.start_time * 1000),
            duration |-> Round3((t - cn.start_time) * 1000),
            velocity |-> cn.velocity]>>
    ELSE <<>>

Frame(t, f, c) == [time |-> t, frequency |-> f, confidence |-> c]

Init ==
    /\ frames = <<>>
    /\ current_note = None
    /\ midi_notes = <<>>
    /\ status = "running"
    /\ pc = "load"
    /\ tempo_bpm = 120
    /\ midi_tracks = <<>>
    /\ mid = <<>>
    /\ sorted_notes = <<>>
    /\ current_time_ticks = 0
    /\ epc = "idle"
    /\ response = 0
    /\ midi_file = <<>>
    /\ mido_build = "unloaded"
    /\ files = <<>>
    /\ log = <<>>
    /\ current_user = None
    /\ apc = "idle"
    /\ reading = <<>>
    /\ sending = <<>>
    /\ exporting = None

(* librosa.load and crepe.predict succeed; the loop starts. *)
Load ==
    /\ pc = "load"
    /\ pc' = "loop"
    /\ UNCHANGED <<frames, current_note, midi_notes, status, evars, avars>>

(* librosa.load or crepe.predict raises: the except branch. *)
LoadFails ==
    /\ pc = "load"
    /\ pc' = "done"
    /\ status' = "error"
    /\ midi_notes' = <<>>
    /\ UNCHANGED <<frames, current_note, evars, avars>>

(* Accepted frame, no note open. *)
OpenNote(t, f, c) ==
    /\ pc = "loop"
    /\ Accepted(f, c)
    /\ current_note = None
    /\ frames' = Append(frames, Frame(t, f, c))
    /\ current_note' = <<NewNote(t, f, c)>>
    /\ UNCHANGED <<midi_notes, status, pc, evars, avars>>

(* Variant: a pitch change closes the open note without opening the next. *)
PitchChange_idle(t, f, c) ==
    /\ pc = "loop"
    /\ Accepted(f, c)
    /\ current_note # None
    /\ current_note[1].pitch # freq_to_midi(f)
    /\ frames' = Append(frames, Frame(t, f, c))
    /\ midi_notes' = midi_notes \o Closed(current_note[1], t)
    /\ current_note' = None
    /\ UNCHANGED <<status, pc, evars, avars>>

(* Accepted frame whose pitch differs from the open note's. *)
PitchChange(t, f, c) ==
    /\ pc = "loop"
    /\ Accepted(f, c)
    /\ current_note # None
    /\ current_note[1].pitch # freq_to_midi(f)
    /\ frames' = Append(frames, Frame(t, f, c))
    /\ midi_notes' = midi_notes \o Closed(current_note[1], t)
    /\ current_note' = <<NewNote(t, f, c)>>
    /\ UNCHANGED <<status, pc, evars, avars>>

(* Accepted frame with the pitch of the open note. *)
ContinueNote(t, f, c) ==
    /\ pc = "loop"
    /\ Accepted(f, c)
    /\ current_note # None
    /\ current_note[1].pitch = freq_to_midi(f)
    /\ frames' = Append(frames, Frame(t, f, c))
    /\ UNCHANGED <<current_note, midi_notes, status, pc, evars, avars>>

(* Rejected frame while a note is open. *)
RejectClose(t, f, c) ==
    /\ pc = "loop"
    /\ ~Accepted(f, c)
    /\ current_note # None
    /\ frames' = Append(frames, Frame(t, f, c))
    /\ midi_notes' = midi_notes \o Closed(current_note[1], t)
    /\ current_note' = None
    /\ UNCHANGED <<status, pc, evars, avars>>

(* Rejected frame, no note open. *)
RejectIdle(t, f, c) ==
    /\ pc = "loop"
    /\ ~Accepted(f, c)
    /\ current_note = None
    /\ frames' = Append(frames, Frame(t, f, c))
    /\ UNCHANGED <<current_note, midi_notes, status, pc, evars, avars>>

(* Variant: the stream is taken to end one frame step after its last frame. *)
LastTime_extended == frames[Len(frames)].time + step_size

(* time[-1] *)
LastTime == frames[Len(frames)].time

(* The loop is over: the last note, if still open, closes at time[-1]. *)
EndOfStream ==
    /\ pc = "loop"
    /\ pc' = "done"
    /\ status' = "success"
    /\ midi_notes' = IF current_note # None
                     THEN midi_notes \o Closed(current_note[1], LastTime)
                     ELSE midi_notes
    /\ UNCHANGED <<frames, current_note, evars, avars>>

(***************************************************************************)
(* Spec: frames of an arbitrary pitch source.                              *)
(***************************************************************************)
FrameInputs ==
    IF Len(frames) < MaxFrames THEN FrameTimes \X Freqs \X Confs ELSE {}

Next ==
    \/ Load
    \/ LoadFails
    \/ \E fr \in FrameInputs : OpenNote(fr[1], fr[2], fr[3])
    \/ \E fr \in FrameInputs : PitchChange(fr[1], fr[2], fr[3])
    \/ \E fr \in FrameInputs : ContinueNote(fr[1], fr[2], fr[3])
    \/ \E fr \in FrameInputs : RejectClose(fr[1], fr[2], fr[3])
    \/ \E fr \in FrameInputs : RejectIdle(fr[1], fr[2], fr[3])
    \/ EndOfStream

Spec == Init /\ [][Next]_vars

(***************************************************************************)
(* SpecCrepe: frames on the time grid of crepe.predict.                    *)
(***************************************************************************)
CrepeInputs ==
    IF Len(frames) < MaxCrepeFrames
    THEN {step_size * Len(frames)} \X CrepeFreqs \X CrepeConfs
    ELSE {}

NextCrepe ==
    \/ Load
    \/ LoadFails
    \/ \E fr \in CrepeInputs : OpenNote(fr[1], fr[2], fr[3])
    \/ \E fr \in CrepeInputs : PitchChange(fr[1], fr[2], fr[3])
    \/ \E fr \in CrepeInputs : ContinueNote(fr[1], fr[2], fr[3])
    \/ \E fr \in CrepeInputs : RejectClose(fr[1], fr[2], fr[3])
    \/ \E fr \in CrepeInputs : RejectIdle(fr[1], fr[2], fr[3])
    \/ EndOfStream

SpecCrepe == Init /\ [][NextCrepe]_vars

(***************************************************************************)
(* SpecSparse: frames of an arbitrary pitch source whose times are far     *)
(* enough apart for several notes of the minimum duration; times may       *)
(* repeat or go back.                                                      *)
(***************************************************************************)
SparseInputs ==
    IF Len(frames) < MaxSparseFrames
    THEN SparseTimes \X CrepeFreqs \X CrepeConfs
    ELSE {}

NextSparse ==
    \/ Load
    \/ LoadFails
    \/ \E fr \in SparseInputs : OpenNote(fr[1], fr[2], fr[3])
    \/ \E fr \in SparseInputs : PitchChange(fr[1], fr[2], fr[3])
    \/ \E fr \in SparseInputs : ContinueNote(fr[1], fr[2], fr[3])
    \/ \E fr \in SparseInputs : RejectClose(fr[1], fr[2], fr[3])
    \/ \E fr \in SparseInputs : RejectIdle(fr[1], fr[2], fr[3])
    \/ EndOfStream

SpecSparse == Init /\ [][NextSparse]_vars

(***************************************************************************)
(* export_project: the MIDI encoding of the tracks of one request.         *)
(*                                                                         *)
(* A note is [start_time, duration, pitch, velocity] with the times in     *)
(* milliseconds; a track of the request is its list of notes, without a    *)
(* name.  The notes are NoteEvents (start >= 0, duration > 0), in any      *)
(* order.                                                                  *)
(***************************************************************************)
ticks_per_beat == 480

Tempos == {0, 90, 120}
StartTimes == {0, 250, 500}
Durations == {90, 500}

Notes ==
    [start_time : StartTimes, duration : Durations, pitch : {60}, velocity : {90}]

RECURSIVE SeqsUpTo(_, _)
SeqsUpTo(S, n) ==
    IF n = 0 THEN {<<>>}
    ELSE LET shorter == SeqsUpTo(S, n - 1)
         IN  shorter \cup {Append(q, x) : q \in {r \in shorter : Len(r) = n - 1}, x \in S}

RECURSIVE NoteCount(_)
NoteCount(tracks) ==
    IF tracks = <<>> THEN 0 ELSE Len(Head(tracks)) + NoteCount(Tail(tracks))

(* the tracks a request may continue with: it holds at most MaxNotes notes *)
TrackInputs == SeqsUpTo(Notes, MaxNotes - NoteCount(midi_tracks))

(* round(n / d) of Python 3 for d > 0: to the nearest integer, ties to even *)
RoundHalfEven(n, d) ==
    LET q == n \div d
        r == n % d
    IN  IF 2 * r > d \/ (2 * r = d /\ q % 2 = 1) THEN q + 1 ELSE q

(* mido.bpm2tempo: microseconds per beat, int(round(60 * 1e6 / bpm)) *)
bpm2tempo(bpm) == RoundHalfEven(60 * 1000000, bpm)

(***************************************************************************)
(* The mido library is imported, not part of the repository, and no        *)
(* version of it is pinned.  Its second2tick returns int(round(second /    *)
(* scale)) in some releases ("rounds") and the unrounded float second /    *)
(* scale in others ("float"), for scale = tempo * 1e-6 / ticks_per_beat.   *)
(* mido_build is "unloaded" until the module is imported.                  *)
(***************************************************************************)
MidoBuilds == {"rounds", "float"}

(* int(mido.second2tick(second, ticks_per_beat, tempo)), the time given in
   milliseconds: int() leaves the rounded integer as it is and truncates
   the float.  For times of 0 to 1000 ms and the tempos of the model the
   truncated double equals the floor of the exact quotient. *)
second2tick(ms, tpb, tempo) ==
    IF mido_build = "float"
    THEN (ms * tpb * 1000) \div tempo
    ELSE RoundHalfEven(ms * tpb * 1000, tempo)

(* Variant: a note is placed before the notes of equal start time. *)
RECURSIVE Insert_before(_, _)
Insert_before(sorted, n) ==
    IF sorted = <<>> THEN <<n>>
    ELSE IF Last(sorted).start_time < n.start_time THEN Append(sorted, n)
    ELSE Append(Insert_before(SubSeq(sorted, 1, Len(sorted) - 1), n), Last(sorted))

(* sorted(notes, key=start_time): a stable insertion sort *)
RECURSIVE Insert(_, _)
Insert(sorted, n) ==
    IF sorted = <<>> THEN <<n>>
    ELSE IF Last(sorted).start_time <= n.start_time THEN Append(sorted, n)
    ELSE Append(Insert(SubSeq(sorted, 1, Len(sorted) - 1), n), Last(sorted))

RECURSIVE Sorted(_)
Sorted(notes) ==
    IF notes = <<>> THEN <<>>
    ELSE Insert(Sorted(SubSeq(notes, 1, Len(notes) - 1)), notes[Len(notes)])

MetaMessage(type, value) == [type |-> type, value |-> value, time |-> 0]

Message(type, note, velocity, time) ==
    [type |-> type, note |-> note, velocity |-> velocity, time |-> time]

(* Variant: the note-on delta is not floored at 0. *)
DeltaOn_signed(start_time_ticks, cursor) == start_time_ticks - cursor

(* max(0, delta_on) *)
DeltaOn(start_time_ticks, cursor) ==
    IF start_time_ticks - cursor > 0 THEN start_time_ticks - cursor ELSE 0

(* the track being encoded gets the message msgs appended *)
TrackAppend(msgs) ==
    [mid EXCEPT ![Len(mid)] = mid[Len(mid)] \o msgs]

(* import mido: the installed release is one of MidoBuilds. *)
ImportMido(build) ==
    /\ mido_build = "unloaded"
    /\ mido_build' = build
    /\ UNCHANGED <<tempo_bpm, midi_tracks, mid, sorted_notes, current_time_ticks,
                   epc, response, midi_file, svars, avars>>

(* mido.second2tick(0, 480, tempo_bpm) of the export session id divides 0
   by tempo_bpm * 1e-6 / 480: a float division by zero when tempo_bpm = 0 *)
SessionIdRaises(bpm) == bpm = 0

(* The request arrives; the MidiFile is created with no track. *)
ExportRequest(bpm) ==
    /\ epc = "idle"
    /\ mido_build # "unloaded"
    /\ ~SessionIdRaises(bpm)
    /\ tempo_bpm' = bpm
    /\ midi_tracks' = <<>>
    /\ mid' = <<>>
    /\ epc' = "tracks"
    /\ UNCHANGED <<sorted_notes, current_time_ticks, response, midi_file, mido_build, svars, avars>>

(* The request arrives and the session id raises ZeroDivisionError before
   the try block: the framework answers 500 and nothing is written. *)
ExportRaises(bpm) ==
    /\ epc = "idle"
    /\ mido_build # "unloaded"
    /\ SessionIdRaises(bpm)
    /\ tempo_bpm' = bpm
    /\ response' = 500
    /\ epc' = "failed"
    /\ UNCHANGED <<midi_tracks, mid, sorted_notes, current_time_ticks, midi_file, mido_build, svars, avars>>

(* Variant: the cursor is carried over from the track before. *)
BeginTrack_carry(notes) ==
    /\ epc = "tracks"
    /\ Len(midi_tracks) < MaxTracks
    /\ midi_tracks' = Append(midi_tracks, notes)
    /\ mid' = Append(mid, <<MetaMessage("track_name", "Unnamed Track"),
                            MetaMessage("set_tempo", bpm2tempo(tempo_bpm))>>)
    /\ sorted_notes' = Sorted(notes)
    /\ epc' = "notes"
    /\ UNCHANGED <<tempo_bpm, current_time_ticks, response, midi_file, mido_build, svars, avars>>

(* The next track of the request: name and tempo records, cursor at 0,
   the notes sorted by start time. *)
BeginTrack(notes) ==
    /\ epc = "tracks"
    /\ Len(midi_tracks) < MaxTracks
    /\ midi_tracks' = Append(midi_tracks, notes)
    /\ mid' = Append(mid, <<MetaMessage("track_name", "Unnamed Track"),
                            MetaMessage("set_tempo", bpm2tempo(tempo_bpm))>>)
    /\ current_time_ticks' = 0
    /\ sorted_notes' = Sorted(notes)
    /\ epc' = "notes"
    /\ UNCHANGED <<tempo_bpm, response, midi_file, mido_build, svars, avars>>

(* One iteration of the loop over sorted_notes. *)
EncodeNote ==
    /\ epc = "notes"
    /\ sorted_notes # <<>>
    /\ LET note_info == Head(sorted_notes)
           tempo == bpm2tempo(tempo_bpm)
           start_time_ticks == second2tick(note_info.start_time, ticks_per_beat, tempo)
           duration_ticks == second2tick(note_info.duration, ticks_per_beat, tempo)
           delta_on == DeltaOn(start_time_ticks, current_time_ticks)
           delta_off == duration_ticks
       IN  /\ mid' = TrackAppend(
                  <<Message("note_on", note_info.pitch, note_info.velocity, delta_on),
                    Message("note_off", note_info.pitch, 0, delta_off)>>)
           /\ current_time_ticks' = current_time_ticks + delta_on + delta_off
    /\ sorted_notes' = Tail(sorted_notes)
    /\ UNCHANGED <<tempo_bpm, midi_tracks, epc, response, midi_file, mido_build, svars, avars>>

(* The notes of the track are exhausted: end_of_track. *)
EndTrack ==
    /\ epc = "notes"
    /\ sorted_notes = <<>>
    /\ mid' = TrackAppend(<<MetaMessage("end_of_track", 0)>>)
    /\ epc' = "tracks"
    /\ UNCHANGED <<tempo_bpm, midi_tracks, sorted_notes, current_time_ticks, response, midi_file, mido_build, svars, avars>>

(* The request has no further track: the file is saved and the response
   names it. *)
Save ==
    /\ epc = "tracks"
    /\ midi_file' = <<mid>>
    /\ response' = 200
    /\ epc' = "saved"
    /\ UNCHANGED <<tempo_bpm, midi_tracks, mid, sorted_notes, current_time_ticks, mido_build, svars, avars>>

NextExport ==
    \/ \E build \in MidoBuilds : ImportMido(build)
    \/ \E bpm \in Tempos : ExportRequest(bpm)
    \/ \E bpm \in Tempos : ExportRaises(bpm)
    \/ \E notes \in TrackInputs : BeginTrack(notes)
    \/ EncodeNote
    \/ EndTrack
    \/ Save

SpecExport == Init /\ [][NextExport]_vars

(***************************************************************************)
(* The HTTP endpoints.  A request carries a bearer token; FastAPI resolves *)
(* get_current_active_user first and calls the handler only with a user.   *)
(* The dependency and the handler run on the event loop without           *)
(* suspension up to the handler's first await that yields: apc is "idle"   *)
(* while the loop is free.  convert_voice_to_midi awaits the read of the   *)
(* upload and is two actions.  export_project has no await, so no other    *)
(* handler runs before it returns, but it writes its files one after the   *)
(* other (mid.save, then open and write for each WAV), and the worker      *)
(* threads that serve downloads see the directory in between: it is one    *)
(* action for each change of a file.  download_exported_file has no await  *)
(* either; the FileResponse it returns is sent after the handler returned: *)
(* os.stat and each read of the file run in a worker thread, at any time,  *)
(* and the event loop, when free, sends what they returned.                *)
(*                                                                         *)
(* files is the content of TEMP_EXPORT_DIR: a file is the sequence of the  *)
(* blocks written to it so far, a block being what one write puts into the *)
(* file and one read takes from it (a track chunk of a MIDI file, the text *)
(* of a placeholder WAV).  log holds the answered requests with their      *)
(* responses, reading the voice requests suspended at the read, sending    *)
(* the downloads whose FileResponse is not sent yet, exporting the export  *)
(* request whose handler is running.                                       *)
(***************************************************************************)
Tokens == {"tok_u1", "tok_u2", "tok_nouid", "tok_noemail", "tok_expired",
           "tok_invalid", "tok_garbled"}

(* auth.verify_id_token: the decoded claims, or the exception raised *)
VerifyIdToken(token) ==
    CASE token = "tok_u1" -> [kind |-> "claims", uid |-> "u1", email |-> "u1@example.com"]
      [] token = "tok_u2" -> [kind |-> "claims", uid |-> "u2", email |-> "u2@example.com"]
      [] token = "tok_nouid" -> [kind |-> "claims", uid |-> "", email |-> "u1@example.com"]
      [] token = "tok_noemail" -> [kind |-> "claims", uid |-> "u1", email |-> ""]
      [] token = "tok_expired" -> [kind |-> "ExpiredIdTokenError"]
      [] token = "tok_invalid" -> [kind |-> "InvalidIdTokenError"]
      [] token = "tok_garbled" -> [kind |-> "ValueError"]

(* get_current_user: the HTTPException(401) for a missing uid or email is
   raised inside the try block, is neither ExpiredIdTokenError nor
   InvalidIdTokenError, and is caught by `except Exception`, which raises
   HTTPException(500) *)
get_current_user(token) ==
    LET decoded_token == VerifyIdToken(token)
    IN  IF decoded_token.kind = "claims"
        THEN IF decoded_token.uid = "" \/ decoded_token.email = ""
             THEN [status |-> 500]
             ELSE [status |-> 200,
                   user |-> [id |-> decoded_token.uid, email |-> decoded_token.email]]
        ELSE IF decoded_token.kind \in {"ExpiredIdTokenError", "InvalidIdTokenError"}
             THEN [status |-> 401]
             ELSE [status |-> 500]

(* the dependency fails: the handler is not called *)
AuthFails(token) ==
    /\ apc = "idle"
    /\ mido_build # "unloaded"
    /\ Len(log) + Len(reading) + Len(sending) < MaxRequests
    /\ get_current_user(token).status # 200
    /\ log' = Append(log, [request |-> [endpoint |-> "auth", token |-> token],
                           status |-> get_current_user(token).status])
    /\ UNCHANGED <<files, current_user, apc, reading, sending, exporting, svars, evars>>

(* the dependency returns the user *)
AuthPasses(token) ==
    /\ apc = "idle"
    /\ mido_build # "unloaded"
    /\ Len(log) + Len(reading) + Len(sending) < MaxRequests
    /\ get_current_user(token).status = 200
    /\ current_user' = get_current_user(token).user
    /\ apc' = "handler"
    /\ UNCHANGED <<files, log, reading, sending, exporting, svars, evars>>

(* project names are sequences of characters; Alnum holds the characters
   of the model for which str.isalnum() is true *)
Alnum == {"s", "1"}

ProjectNames == {<<"s", "1">>, <<"s", " ">>, <<"s", "_">>}

ApiTempos == {0, 120}

ApiTracks ==
    { << <<[start_time |-> 0, duration |-> 500, pitch |-> 60, velocity |-> 90]>>,
         <<[start_time |-> 250, duration |-> 90, pitch |-> 60, velocity |-> 90]>> >>,
      << <<[start_time |-> 250, duration |-> 90, pitch |-> 60, velocity |-> 90]>>,
         <<[start_time |-> 0, duration |-> 500, pitch |-> 60, velocity |-> 90]>> >> }

(* "".join(c if c.isalnum() else "_" for c in project_name) *)
project_name_safe(project_name) ==
    [i \in DOMAIN project_name |->
        IF project_name[i] \in Alnum THEN project_name[i] ELSE "_"]

(* f"{project_name_safe}_{int(mido.second2tick(0, 480, tempo_bpm))}" *)
export_session_id(project_name, bpm) ==
    [stem |-> project_name_safe(project_name),
     session |-> second2tick(0, ticks_per_beat, bpm)]

(* f"{export_session_id}.mid" *)
midi_filename(session_id) ==
    [stem |-> session_id.stem, session |-> session_id.session,
     track |-> "", ext |-> <<".", "m", "i", "d">>]

(* track_data.get("track_name", f"Track_{i+1}") of a track without a name,
   for i + 1 = n *)
track_name(n) == <<"Track_1", "Track_2", "Track_3">>[n]

(* f"{export_session_id}_{track_name}.wav" *)
wav_filename(session_id, n) ==
    [stem |-> session_id.stem, session |-> session_id.session,
     track |-> track_name(n), ext |-> <<".", "w", "a", "v">>]

(* the loop over sorted_notes of one track, from the cursor on, and the
   end_of_track record *)
RECURSIVE EncodeNotes(_, _, _)
EncodeNotes(notes, cursor, bpm) ==
    IF notes = <<>> THEN <<MetaMessage("end_of_track", 0)>>
    ELSE LET note_info == Head(notes)
             tempo == bpm2tempo(bpm)
             start_time_ticks == second2tick(note_info.start_time, ticks_per_beat, tempo)
             duration_ticks == second2tick(note_info.duration, ticks_per_beat, tempo)
             delta_on == DeltaOn(start_time_ticks, cursor)
             delta_off == duration_ticks
         IN  <<Message("note_on", note_info.pitch, note_info.velocity, delta_on),
               Message("note_off", note_info.pitch, 0, delta_off)>>
             \o EncodeNotes(Tail(notes), cursor + delta_on + delta_off, bpm)

(* the MidiFile built from the tracks of a request *)
EncodeFile(tracks, bpm) ==
    [t \in DOMAIN tracks |->
        <<MetaMessage("track_name", "Unnamed Track"),
          MetaMessage("set_tempo", bpm2tempo(bpm))>>
        \o EncodeNotes(Sorted(tracks[t]), 0, bpm)]

(* open(path, "wb") or open(path, "w"): the file exists and is empty *)
Opened(fs, path) ==
    [p \in DOMAIN fs \cup {path} |-> IF p = path THEN <<>> ELSE fs[p]]

(* a write to the open file at path *)
Appended(fs, path, block) ==
    [p \in DOMAIN fs |-> IF p = path THEN Append(fs[p], block) ELSE fs[p]]

(* export_project up to the open of mid.save: the session id, the MidiFile
   built in memory, and the MIDI file opened for writing, which truncates
   the file of an earlier export of the same name *)
ExportProject(project_name, bpm, tracks) ==
    /\ apc = "handler"
    /\ LET user_id == current_user.id
           request == [endpoint |-> "export", user |-> user_id,
                       project_name |-> project_name, tempo_bpm |-> bpm,
                       midi_tracks |-> tracks]
       IN  IF SessionIdRaises(bpm)
           THEN /\ log' = Append(log, [request |-> request, status |-> 500])
                /\ apc' = "idle"
                /\ UNCHANGED <<files, exporting>>
           ELSE LET session_id == export_session_id(project_name, bpm)
                    name == midi_filename(session_id)
                IN  /\ files' = Opened(files, <<user_id, name>>)
                    /\ exporting' = [request |-> request, user_id |-> user_id,
                                     session_id |-> session_id, midi_file |-> name,
                                     blocks |-> EncodeFile(tracks, bpm),
                                     wavs |-> 0, wav_open |-> FALSE]
                    /\ apc' = "exporting"
                    /\ log' = log
    /\ current_user' = None
    /\ UNCHANGED <<reading, sending, svars, evars>>

(* mid.save writes the next track chunk *)
SaveWrites ==
    /\ apc = "exporting"
    /\ exporting.blocks # <<>>
    /\ files' = Appended(files, <<exporting.user_id, exporting.midi_file>>,
                         Head(exporting.blocks))
    /\ exporting' = [exporting EXCEPT !.blocks = Tail(@)]
    /\ UNCHANGED <<log, current_user, apc, reading, sending, svars, evars>>

(* open(wav_filepath_placeholder, "w") for the next track *)
WavOpens ==
    /\ apc = "exporting"
    /\ exporting.blocks = <<>>
    /\ ~exporting.wav_open
    /\ exporting.wavs < Len(exporting.request.midi_tracks)
    /\ files' = Opened(files, <<exporting.user_id,
                                wav_filename(exporting.session_id, exporting.wavs + 1)>>)
    /\ exporting' = [exporting EXCEPT !.wav_open = TRUE]
    /\ UNCHANGED <<log, current_user, apc, reading, sending, svars, evars>>

(* f.write(f"Placeholder WAV for {track_name} - User: {user_id}") and the
   close of the file *)
WavWrites ==
    /\ apc = "exporting"
    /\ exporting.wav_open
    /\ files' = Appended(files, <<exporting.user_id,
                                  wav_filename(exporting.session_id, exporting.wavs + 1)>>,
                         [kind |-> "wav", track_name |-> track_name(exporting.wavs + 1),
                          user |-> exporting.user_id])
    /\ exporting' = [exporting EXCEPT !.wav_open = FALSE, !.wavs = @ + 1]
    /\ UNCHANGED <<log, current_user, apc, reading, sending, svars, evars>>

(* export_project returns its response *)
ExportReturns ==
    /\ apc = "exporting"
    /\ exporting.blocks = <<>>
    /\ ~exporting.wav_open
    /\ exporting.wavs = Len(exporting.request.midi_tracks)
    /\ log' = Append(log, [request |-> exporting.request, status |-> 200,
                           user_id |-> exporting.user_id,
                           midi_file |-> exporting.midi_file])
    /\ exporting' = None
    /\ apc' = "idle"
    /\ UNCHANGED <<files, current_user, reading, sending, svars, evars>>

UserIds == {"u1", "u2"}

DownloadNames ==
    {midi_filename([stem |-> <<"s", "_">>, session |-> 0]),
     midi_filename([stem |-> <<"s", "1">>, session |-> 0]),
     wav_filename([stem |-> <<"s", "_">>, session |-> 0], 1)}

(* the cased characters of ASCII *)
Uppercase == <<"A", "B", "C", "D", "E", "F", "G", "H", "I", "J", "K", "L", "M",
               "N", "O", "P", "Q", "R", "S", "T", "U", "V", "W", "X", "Y", "Z">>

Lowercase == <<"a", "b", "c", "d", "e", "f", "g", "h", "i", "j", "k", "l", "m",
               "n", "o", "p", "q", "r", "s", "t", "u", "v", "w", "x", "y", "z">>

(* str.lower() of a sequence of ASCII characters: every upper-case letter is
   replaced by its lower-case letter, every other character is kept *)
Lower(ext) ==
    [i \in DOMAIN ext |->
        IF \E c \in DOMAIN Uppercase : Uppercase[c] = ext[i]
        THEN Lowercase[CHOOSE c \in DOMAIN Uppercase : Uppercase[c] = ext[i]]
        ELSE ext[i]]

(* str.endswith *)
EndsWith(string, suffix) ==
    /\ Len(string) >= Len(suffix)
    /\ SubSeq(string, Len(string) - Len(suffix) + 1, Len(string)) = suffix

(* filename.lower().endswith(".mid") or .endswith(".midi"), then
   .endswith(".wav"); the end of a file name is its ext *)
MediaType(filename) ==
    IF \/ EndsWith(Lower(filename.ext), <<".", "m", "i", "d">>)
       \/ EndsWith(Lower(filename.ext), <<".", "m", "i", "d", "i">>)
    THEN "audio/midi"
    ELSE IF EndsWith(Lower(filename.ext), <<".", "w", "a", "v">>)
    THEN "audio/wav"
    ELSE "application/octet-stream"

(* the FileResponse of a request for filepath, before it is sent *)
FileResponse(request, filepath, media_type) ==
    [request |-> request, filepath |-> filepath, media_type |-> media_type,
     phase |-> "stat", size |-> -1, offset |-> 0, body |-> <<>>]

(* Variant: the path's user id is not compared with the authenticated
   user's. *)
DownloadExportedFile_open(user_id_from_path, filename) ==
    /\ apc = "handler"
    /\ LET request == [endpoint |-> "download", user |-> current_user.id,
                       user_id_from_path |-> user_id_from_path, filename |-> filename]
           filepath == <<user_id_from_path, filename>>
       IN  IF filepath \notin DOMAIN files
           THEN /\ log' = Append(log, [request |-> request, status |-> 404])
                /\ sending' = sending
           ELSE /\ sending' = Append(sending, FileResponse(request, filepath,
                                                           MediaType(filename)))
                /\ log' = log
    /\ current_user' = None
    /\ apc' = "idle"
    /\ UNCHANGED <<files, reading, exporting, svars, evars>>

(* download_exported_file: 403 for another user's path, 404 for a path that
   is not a file, else a FileResponse for the path, which holds the path and
   the media type and not the content *)
DownloadExportedFile(user_id_from_path, filename) ==
    /\ apc = "handler"
    /\ LET request == [endpoint |-> "download", user |-> current_user.id,
                       user_id_from_path |-> user_id_from_path, filename |-> filename]
           filepath == <<user_id_from_path, filename>>
       IN  IF current_user.id # user_id_from_path
           THEN /\ log' = Append(log, [request |-> request, status |-> 403])
                /\ sending' = sending
           ELSE IF filepath \notin DOMAIN files
           THEN /\ log' = Append(log, [request |-> request, status |-> 404])
                /\ sending' = sending
           ELSE /\ sending' = Append(sending, FileResponse(request, filepath,
                                                           MediaType(filename)))
                /\ log' = log
    /\ current_user' = None
    /\ apc' = "idle"
    /\ UNCHANGED <<files, reading, exporting, svars, evars>>

(* the sequence q without its element i *)
Without(q, i) == SubSeq(q, 1, i - 1) \o SubSeq(q, i + 1, Len(q))

(* os.stat(path) in a worker thread, at any time, also while export_project
   is writing: the size of the file as it is now becomes the
   Content-Length; size counts blocks.  The program removes no file, so the
   path still is a file. *)
FileResponseStats(i) ==
    /\ i \in DOMAIN sending
    /\ sending[i].phase = "stat"
    /\ sending' = [sending EXCEPT ![i].size = Len(files[sending[i].filepath]),
                                  ![i].phase = "start"]
    /\ UNCHANGED <<files, log, current_user, apc, reading, exporting, svars, evars>>

(* the event loop sends status 200 and the headers, and hands the open and
   the first read of the file to a worker thread *)
FileResponseStarts(i) ==
    /\ apc = "idle"
    /\ i \in DOMAIN sending
    /\ sending[i].phase = "start"
    /\ sending' = [sending EXCEPT ![i].phase = "read"]
    /\ UNCHANGED <<files, log, current_user, apc, reading, exporting, svars, evars>>

(* file.read(chunk_size) in a worker thread, at any time, also while
   export_project is writing: the block at the offset of the file as it is
   now.  more_body is false when the chunk is short: the block is the last
   of the file, or there is none. *)
FileResponseReads(i) ==
    /\ i \in DOMAIN sending
    /\ sending[i].phase = "read"
    /\ LET data == files[sending[i].filepath]
           offset == sending[i].offset
       IN  sending' =
              IF offset < Len(data)
              THEN [sending EXCEPT ![i].body = Append(@, data[offset + 1]),
                                   ![i].offset = offset + 1,
                                   ![i].phase = IF offset + 1 < Len(data)
                                                THEN "more" ELSE "last"]
              ELSE [sending EXCEPT ![i].phase = "last"]
    /\ UNCHANGED <<files, log, current_user, apc, reading, exporting, svars, evars>>

(* the event loop sends the chunk: after a full chunk the next read is
   handed to a worker thread, after a short one the response is complete *)
FileResponseSends(i) ==
    /\ apc = "idle"
    /\ i \in DOMAIN sending
    /\ sending[i].phase \in {"more", "last"}
    /\ IF sending[i].phase = "more"
       THEN /\ sending' = [sending EXCEPT ![i].phase = "read"]
            /\ log' = log
       ELSE /\ log' = Append(log, [request |-> sending[i].request, status |-> 200,
                                   media_type |-> sending[i].media_type,
                                   content_length |-> sending[i].size,
                                   body |-> sending[i].body])
            /\ sending' = Without(sending, i)
    /\ UNCHANGED <<files, current_user, apc, reading, exporting, svars, evars>>

(* content types, as type and subtype *)
ContentTypes == {<<"audio", "wav">>, <<"text", "plain">>}

(* what the upload holds: audio in which no frame is accepted, or bytes
   that librosa cannot decode *)
Audios == {"silence", "undecodable"}

(* convert_voice_to_midi up to `await audio_file.read()`: an upload that is
   not audio is answered 400; otherwise the handler is suspended at the
   read and other requests may be handled before it resumes *)
ConvertVoiceToMidi(content_type, audio) ==
    /\ apc = "handler"
    /\ LET request == [endpoint |-> "voice", user |-> current_user.id,
                       content_type |-> content_type, audio |-> audio]
       IN  IF content_type[1] # "audio"
           THEN /\ log' = Append(log, [request |-> request, status |-> 400])
                /\ reading' = reading
           ELSE /\ reading' = Append(reading, request)
                /\ log' = log
    /\ current_user' = None
    /\ apc' = "idle"
    /\ UNCHANGED <<files, sending, exporting, svars, evars>>

(* convert_voice_to_midi after the read: process_voice_to_midi(
   audio_content, filename, user_id=user_id) is a call with a keyword the
   function does not have; it raises TypeError before the service runs,
   and `except Exception` answers 500 *)
ConvertVoiceToMidiResumes(i) ==
    /\ apc = "idle"
    /\ i \in DOMAIN reading
    /\ log' = Append(log, [request |-> reading[i], status |-> 500])
    /\ reading' = Without(reading, i)
    /\ UNCHANGED <<files, current_user, apc, sending, exporting, svars, evars>>

NextApi ==
    \/ \E build \in MidoBuilds : ImportMido(build)
    \/ \E token \in Tokens : AuthFails(token)
    \/ \E token \in Tokens : AuthPasses(token)
    \/ \E project_name \in ProjectNames, bpm \in ApiTempos, tracks \in ApiTracks :
          ExportProject(project_name, bpm, tracks)
    \/ SaveWrites
    \/ WavOpens
    \/ WavWrites
    \/ ExportReturns
    \/ \E user_id_from_path \in UserIds, filename \in DownloadNames :
          DownloadExportedFile(user_id_from_path, filename)
    \/ \E content_type \in ContentTypes, audio \in Audios :
          ConvertVoiceToMidi(content_type, audio)
    \/ \E i \in 1..MaxRequests : ConvertVoiceToMidiResumes(i)
    \/ \E i \in 1..MaxRequests : FileResponseStats(i)
    \/ \E i \in 1..MaxRequests : FileResponseStarts(i)
    \/ \E i \in 1..MaxRequests : FileResponseReads(i)
    \/ \E i \in 1..MaxRequests : FileResponseSends(i)

SpecApi == Init /\ [][NextApi]_vars

(***************************************************************************)
(* Vocabulary of the properties.                                           *)
(***************************************************************************)
IsAccepted(fr) == fr.confidence >= 600 /\ fr.frequency > 0

(* the candidate pitch of every frequency of the model *)
MidiOf == [f \in Freqs \cup CrepeFreqs |-> freq_to_midi(f)]

PitchOf(fr) == MidiOf[fr.frequency]

Clamp(x) == IF x < 0 THEN 0 ELSE IF x > 127 THEN 127 ELSE x

(* floor(confidence * 100) + 27, clamped to [0,127] *)
ClaimVelocity(fr) == Clamp((fr.confidence \div 10) + 27)

(* The span from time a to time b is at least the minimum note duration. *)
SpanReachesMin(a, b) ==
    \/ b - a > min_note_duration_ms
    \/ b - a = min_note_duration_ms /\ <<a, b>> \notin BelowThreshold

Ordered(fs) == \A i \in 1..(Len(fs) - 1) : fs[i].time <= fs[i + 1].time

StrictlyOrdered(fs) == \A i \in 1..(Len(fs) - 1) : fs[i].time < fs[i + 1].time

Stepped == Len(frames') = Len(frames) + 1

NewFrame == frames'[Len(frames')]

(* frames[j] does not continue a note of pitch p *)
Disqualifies(fr, p) == ~(IsAccepted(fr) /\ PitchOf(fr) = p)

(* frames[i..j] is a maximal run of accepted frames of one pitch, and the
   frame after it has been processed *)
RunAt(i, j) ==
    /\ i <= j /\ j < Len(frames)
    /\ IsAccepted(frames[i])
    /\ Disqualifies(frames[j + 1], PitchOf(frames[i]))
    /\ i > 1 => Disqualifies(frames[i - 1], PitchOf(frames[i]))
    /\ \A k \in i..j : ~Disqualifies(frames[k], PitchOf(frames[i]))

NotesIn(a, b) ==
    {k \in DOMAIN midi_notes :
        a <= midi_notes[k].start_time /\ midi_notes[k].start_time < b}

ScenarioA == [i \in 1..10 |-> Frame((i - 1) * 10, 440, 900)]

ScenarioC == [i \in 1..6 |-> Frame((i - 1) * 10, IF i <= 3 THEN 440 ELSE 523, 900)]

(***************************************************************************)
(* C1.  Every emitted note lasts at least the minimum note duration, and   *)
(* its duration is the distance between two frame times: no shorter        *)
(* candidate is ever appended.                                             *)
(***************************************************************************)
ThmC1 ==
    \A k \in DOMAIN midi_notes :
        /\ midi_notes[k].duration >= min_note_duration_ms
        /\ \E i, j \in DOMAIN frames :
              /\ frames[i].time = midi_notes[k].start_time
              /\ frames[j].time - frames[i].time = midi_notes[k].duration

(* A note of exactly 50 ms was emitted and a one-frame candidate was dropped. *)
WitC1 ==
    /\ \E k \in DOMAIN midi_notes : midi_notes[k].duration = min_note_duration_ms
    /\ \E i \in 2..(Len(frames) - 1) :
          /\ ~IsAccepted(frames[i - 1])
          /\ IsAccepted(frames[i])
          /\ ~IsAccepted(frames[i + 1])

(***************************************************************************)
(* C2.  Every emitted note has a pitch in 0..127 (the statement of the     *)
(* claim; freq_to_midi does not clamp).                                    *)
(***************************************************************************)
CexC2 == \A k \in DOMAIN midi_notes : midi_notes[k].pitch \in 0..127

(***************************************************************************)
(* C3.  A frame sequence that is not in non-decreasing time order emits no *)
(* note and ends in an error (the statement of the claim; the loop does    *)
(* not look at the order of the times).                                    *)
(***************************************************************************)
CexC3 ==
    ~Ordered(frames) =>
        /\ midi_notes = <<>>
        /\ pc = "done" => status = "error"

(***************************************************************************)
(* C4.  A maximal run of accepted frames of one pitch followed by a        *)
(* disqualifying frame, whose span from the first frame of the run to the  *)
(* disqualifying frame reaches the minimum, yields exactly one note: it    *)
(* starts at the run's first frame and start + duration is the time of the *)
(* disqualifying frame.                                                    *)
(***************************************************************************)
ThmC4 ==
    \A i, j \in DOMAIN frames :
        (RunAt(i, j) /\ SpanReachesMin(frames[i].time, frames[j + 1].time)) =>
            \E k \in DOMAIN midi_notes :
                /\ NotesIn(frames[i].time, frames[j + 1].time) = {k}
                /\ midi_notes[k].pitch = PitchOf(frames[i])
                /\ midi_notes[k].start_time = frames[i].time
                /\ midi_notes[k].start_time + midi_notes[k].duration
                      = frames[j + 1].time

(* A run of five frames closed by a rejected frame gave a note of 50 ms. *)
WitC4 ==
    /\ Len(frames) >= 6
    /\ RunAt(1, 5)
    /\ ~IsAccepted(frames[6])
    /\ midi_notes = <<[pitch |-> 69, start_time |-> 0, duration |-> 50,
                       velocity |-> 117]>>

(***************************************************************************)
(* C5.  An accepted frame of a different pitch closes the open note at the *)
(* frame's time (emitting it iff its span reaches the minimum) and opens,  *)
(* in the same step, a note with the new pitch, the frame's time and the   *)
(* frame's velocity; after an accepted frame a note is always open.        *)
(***************************************************************************)
ThmC5 ==
    [][/\ (/\ Stepped
           /\ current_note # None
           /\ IsAccepted(NewFrame)
           /\ PitchOf(NewFrame) # current_note[1].pitch)
          => /\ current_note' =
                   <<[pitch |-> PitchOf(NewFrame),
                      start_time |-> NewFrame.time,
                      velocity |-> ClaimVelocity(NewFrame),
                      raw_confidence |-> NewFrame.confidence]>>
             /\ midi_notes' =
                   IF SpanReachesMin(current_note[1].start_time, NewFrame.time)
                   THEN Append(midi_notes,
                               [pitch |-> current_note[1].pitch,
                                start_time |-> current_note[1].start_time,
                                duration |-> NewFrame.time - current_note[1].start_time,
                                velocity |-> current_note[1].velocity])
                   ELSE midi_notes
       /\ (Stepped /\ IsAccepted(NewFrame)) => current_note' # None]_vars

(* A pitch change emitted the open note and opened the next at the same time. *)
WitC5 ==
    /\ pc = "loop"
    /\ Len(frames) = 2
    /\ IsAccepted(frames[1]) /\ IsAccepted(frames[2])
    /\ PitchOf(frames[1]) = 69 /\ PitchOf(frames[2]) = 72
    /\ Len(midi_notes) = 1
    /\ midi_notes[1].start_time + midi_notes[1].duration = frames[2].time
    /\ current_note # None
    /\ current_note[1].start_time = frames[2].time

(***************************************************************************)
(* C6.  A note still open at the end of the stream is closed at the time   *)
(* of the last frame and emitted iff its span reaches the minimum; ten     *)
(* accepted 440 Hz frames of confidence 0.9 from t = 0 give the single     *)
(* note (69, 0.0, 0.09, 117).                                              *)
(***************************************************************************)
ThmC6 ==
    /\ [][(pc = "loop" /\ pc' = "done" /\ current_note # None) =>
            midi_notes' =
               IF SpanReachesMin(current_note[1].start_time, Last(frames).time)
               THEN Append(midi_notes,
                           [pitch |-> current_note[1].pitch,
                            start_time |-> current_note[1].start_time,
                            duration |-> Last(frames).time - current_note[1].start_time,
                            velocity |-> current_note[1].velocity])
               ELSE midi_notes]_vars
    /\ []((pc = "done" /\ frames = ScenarioA) =>
            /\ status = "success"
            /\ midi_notes = <<[pitch |-> 69, start_time |-> 0, duration |-> 90,
                               velocity |-> 117]>>)

(* The ten frames of the scenario were processed and the stream has ended. *)
WitC6 ==
    /\ pc = "done"
    /\ frames = ScenarioA
    /\ Len(midi_notes) = 1

(***************************************************************************)
(* C7.  A note's velocity is floor(confidence*100) + 27, clamped to        *)
(* [0,127], of the frame that opens it; it is emitted with that velocity;  *)
(* an accepted frame of the open note's pitch changes neither the open     *)
(* note nor the emitted notes.                                             *)
(***************************************************************************)
ThmC7 ==
    [][/\ (/\ Stepped
           /\ IsAccepted(NewFrame)
           /\ (current_note = None \/ PitchOf(NewFrame) # current_note[1].pitch))
          => /\ current_note' # None
             /\ current_note'[1].velocity = ClaimVelocity(NewFrame)
       /\ Len(midi_notes') > Len(midi_notes)
          => /\ current_note # None
             /\ SubSeq(midi_notes', 1, Len(midi_notes)) = midi_notes
             /\ Len(midi_notes') = Len(midi_notes) + 1
             /\ Last(midi_notes').velocity = current_note[1].velocity
       /\ (/\ Stepped
           /\ current_note # None
           /\ IsAccepted(NewFrame)
           /\ PitchOf(NewFrame) = current_note[1].pitch)
          => /\ current_note' = current_note
             /\ midi_notes' = midi_notes]_vars

(* A note opened at confidence 0.909 and continued at 0.6 was emitted with 117. *)
WitC7 ==
    /\ Len(frames) = 3
    /\ frames[1].confidence = 909 /\ IsAccepted(frames[1])
    /\ frames[2].confidence = 600 /\ IsAccepted(frames[2])
    /\ PitchOf(frames[2]) = PitchOf(frames[1])
    /\ Len(midi_notes) = 1
    /\ midi_notes[1].velocity = 117

(***************************************************************************)
(* C8.  Every emitted note starts at the time of an accepted frame of the  *)
(* note's pitch, and every frame whose time lies in [start, start +        *)
(* duration) is an accepted frame of that pitch.                           *)
(***************************************************************************)
GatedNotes ==
    \A k \in DOMAIN midi_notes :
        /\ \E i \in DOMAIN frames :
              /\ IsAccepted(frames[i])
              /\ frames[i].time = midi_notes[k].start_time
              /\ PitchOf(frames[i]) = midi_notes[k].pitch
        /\ \A i \in DOMAIN frames :
              (/\ midi_notes[k].start_time <= frames[i].time
               /\ frames[i].time < midi_notes[k].start_time + midi_notes[k].duration)
              => (IsAccepted(frames[i]) /\ PitchOf(frames[i]) = midi_notes[k].pitch)

(* C8 as stated: for frame times in non-decreasing order. *)
CexC8 == Ordered(frames) => GatedNotes

(* C8 as amended: for strictly increasing frame times. *)
ThmC8 == StrictlyOrdered(frames) => GatedNotes

(* A note was emitted from strictly increasing frames, closed by a frame
   that fails the confidence test only. *)
WitC8 ==
    /\ Len(frames) = 3
    /\ StrictlyOrdered(frames)
    /\ Len(midi_notes) = 1
    /\ frames[3].frequency > 0 /\ frames[3].confidence < 600

(***************************************************************************)
(* C9.  A candidate closed below the minimum duration adds no note, and    *)
(* the note opened by the closing frame starts at that frame's time; three *)
(* 440 Hz frames followed by three 523 Hz frames give no note.             *)
(***************************************************************************)
ThmC9 ==
    /\ [][(/\ Stepped
           /\ current_note # None
           /\ Disqualifies(NewFrame, current_note[1].pitch)
           /\ ~SpanReachesMin(current_note[1].start_time, NewFrame.time))
          => /\ midi_notes' = midi_notes
             /\ \/ current_note' = None
                \/ current_note'[1].start_time = NewFrame.time]_vars
    /\ []((pc = "done" /\ frames = ScenarioC) => midi_notes = <<>>)

(* The six frames of the scenario were processed and the stream has ended. *)
WitC9 ==
    /\ pc = "done"
    /\ status = "success"
    /\ frames = ScenarioC
    /\ midi_notes = <<>>
(***************************************************************************)
(* C10.  For a track whose notes arrive sorted by start time, every        *)
(* note-on and note-off delta written to the track is >= 0, and the        *)
(* cursor current_time_ticks never decreases from one note to the next.    *)
(***************************************************************************)
IsSortedByStart(notes) ==
    \A i, j \in DOMAIN notes : i < j => notes[i].start_time <= notes[j].start_time

ThmC10 ==
    /\ [](\A t \in DOMAIN mid :
            IsSortedByStart(midi_tracks[t]) =>
               \A m \in DOMAIN mid[t] :
                  mid[t][m].type \in {"note_on", "note_off"} => mid[t][m].time >= 0)
    /\ [][(/\ epc = "notes"
           /\ epc' = "notes"
           /\ IsSortedByStart(Last(midi_tracks)))
          => current_time_ticks' >= current_time_ticks]_vars

(* A sorted track was encoded whose second note starts before the first has
   ended: its note-on has delta 0 and the cursor stands at the end of the
   second note. *)
WitC10 ==
    /\ epc = "tracks"
    /\ Len(mid) = 1
    /\ midi_tracks[1] = <<[start_time |-> 0, duration |-> 500, pitch |-> 60, velocity |-> 90],
                          [start_time |-> 250, duration |-> 90, pitch |-> 60, velocity |-> 90]>>
    /\ mid[1][5].type = "note_on"
    /\ mid[1][5].time = 0
    /\ current_time_ticks > 480

(***************************************************************************)
(* Reading a written track back: note k of track t has its note-on at      *)
(* message 2k+1 and its note-off at message 2k+2; the absolute tick of a   *)
(* message is the sum of the deltas up to it.                              *)
(***************************************************************************)
RECURSIVE SumTimes(_, _)
SumTimes(msgs, n) == IF n = 0 THEN 0 ELSE msgs[n].time + SumTimes(msgs, n - 1)

NotesEncoded(msgs) ==
    Cardinality({m \in DOMAIN msgs : msgs[m].type = "note_off"})

AbsOn(msgs, k) == SumTimes(msgs, 2 * k + 1)

Abs(x) == IF x < 0 THEN -x ELSE x

(* ticks, converted to seconds with tempo, is within one tick of ms/1000 *)
WithinOneTick(ticks, ms, tempo) ==
    Abs(ticks * tempo - ms * ticks_per_beat * 1000) <= tempo

(* C11.  For every track whose notes are sorted by start time, the         *)
(* absolute note-on tick obtained by summing the emitted deltas and the    *)
(* note-off delta of every note, converted back to seconds with the same   *)
(* tempo, are within one tick of the note's start time and duration,       *)
(* overlapping and back-to-back notes included.                            *)
CexC11 ==
    \A t \in DOMAIN mid :
       IsSortedByStart(midi_tracks[t]) =>
          \A k \in 1..NotesEncoded(mid[t]) :
             /\ WithinOneTick(AbsOn(mid[t], k), midi_tracks[t][k].start_time,
                              bpm2tempo(tempo_bpm))
             /\ WithinOneTick(mid[t][2 * k + 2].time, midi_tracks[t][k].duration,
                              bpm2tempo(tempo_bpm))

(* the integer nearest to seconds / (60 / bpm) * 480 = ms * bpm / 125;     *)
(* 2 * ms * bpm is even and 125 is odd, so there is no tie                 *)
NearestTick(ms, bpm) == (2 * ms * bpm + 125) \div 250

(* C12.  Every note is written with duration_ticks, the note-off delta,    *)
(* equal to the integer nearest to duration / (60 / tempo_bpm) * 480, and  *)
(* with note-on delta max(0, start_ticks - cursor) for start_ticks the     *)
(* integer nearest to start_time / (60 / tempo_bpm) * 480; a single note   *)
(* with start 0.5 s and duration 0.5 s at 120 BPM gives note-on delta 480  *)
(* and note-off delta 480.                                                 *)
CexC12 ==
    /\ [][(epc = "notes" /\ sorted_notes # <<>> /\ mid' # mid) =>
            LET n == Head(sorted_notes)
                msgs == Last(mid')
                start_ticks == NearestTick(n.start_time, tempo_bpm)
                duration_ticks == NearestTick(n.duration, tempo_bpm)
                on == msgs[Len(msgs) - 1]
                off == msgs[Len(msgs)]
            IN  /\ Len(msgs) = Len(Last(mid)) + 2
                /\ on.type = "note_on"
                /\ on.time = (IF start_ticks > current_time_ticks
                              THEN start_ticks - current_time_ticks ELSE 0)
                /\ off.type = "note_off"
                /\ off.time = duration_ticks
                /\ current_time_ticks = 0 => on.time = start_ticks]_vars
    /\ [](\A t \in DOMAIN mid :
            (/\ tempo_bpm = 120
             /\ midi_tracks[t] = <<[start_time |-> 500, duration |-> 500,
                                    pitch |-> 60, velocity |-> 90]>>
             /\ Len(mid[t]) >= 4)
            => mid[t][3].time = 480 /\ mid[t][4].time = 480)

(* C13.  A request whose tempo_bpm is zero or negative is answered with an *)
(* input rejection (a 4xx status), never with success or an internal       *)
(* error, and no MIDI file is written.                                     *)
CexC13 ==
    (epc # "idle" /\ tempo_bpm <= 0) =>
        /\ response \in 400..499
        /\ midi_file = <<>>

(* the position note i of notes takes when the notes are ordered by start  *)
(* time and notes of equal start time keep their input order               *)
Rank(notes, i) ==
    Cardinality({j \in DOMAIN notes :
                    \/ notes[j].start_time < notes[i].start_time
                    \/ notes[j].start_time = notes[i].start_time /\ j < i}) + 1

StableOrder(notes) ==
    [k \in 1..Len(notes) |-> notes[CHOOSE i \in DOMAIN notes : Rank(notes, i) = k]]

(* C14.  The notes of a track, given in any order, are encoded in the      *)
(* stable order of their start times: the notes still to encode are the    *)
(* rest of that order, the k-th note written has the duration of the k-th  *)
(* note of that order (its tick count, to within one tick of rounding), a  *)
(* note with the start time of the note before it gets note-on delta 0,    *)
(* every note of a finished track is written and                           *)
(* the request succeeds, and the caller's note lists never change.         *)
ThmC14 ==
    /\ [](\A t \in DOMAIN mid :
            LET order == StableOrder(midi_tracks[t])
                done == NotesEncoded(mid[t])
            IN  /\ \A k \in 1..(Len(order) - 1) :
                      order[k].start_time <= order[k + 1].start_time
                /\ done <= Len(order)
                /\ \A k \in 1..done :
                      /\ Abs(mid[t][2 * k + 2].time
                               - NearestTick(order[k].duration, tempo_bpm)) <= 1
                      /\ (k > 1 /\ order[k].start_time = order[k - 1].start_time)
                            => mid[t][2 * k + 1].time = 0
                /\ (t = Len(mid) /\ epc = "notes")
                      => sorted_notes = SubSeq(order, done + 1, Len(order))
                /\ (t < Len(mid) \/ epc \in {"tracks", "saved"})
                      => done = Len(order))
    /\ [](epc = "saved" => response = 200)
    /\ [][\A t \in DOMAIN midi_tracks :
             t \in DOMAIN midi_tracks' /\ midi_tracks'[t] = midi_tracks[t]]_vars

(* An unsorted track with two notes of equal start time was encoded: the
   two notes starting at 0 come first in their input order (0.09 s before
   0.5 s), the second with note-on delta 0, then the note given first. *)
WitC14 ==
    /\ epc = "tracks"
    /\ tempo_bpm = 120
    /\ Len(mid) = 1
    /\ midi_tracks[1] = <<[start_time |-> 250, duration |-> 90, pitch |-> 60, velocity |-> 90],
                          [start_time |-> 0, duration |-> 90, pitch |-> 60, velocity |-> 90],
                          [start_time |-> 0, duration |-> 500, pitch |-> 60, velocity |-> 90]>>
    /\ mid[1][4].time = 86
    /\ mid[1][5].time = 0
    /\ mid[1][6].time = 480
    /\ mid[1][8].time = 86

(* the records of a track, as read from the file: their types in order *)
TypesOf(msgs) == [m \in DOMAIN msgs |-> msgs[m].type]

(* track t of the file is complete *)
Finished(t) == t < Len(mid) \/ epc \in {"tracks", "saved"}

(* C15.  A finished track holds, in order, one track-name record, one      *)
(* tempo record, then for every note a note-on immediately followed by the *)
(* note-off of the same pitch, then one end-of-track record with delta 0   *)
(* and nothing after it; the records of a track are determined by the      *)
(* track's own notes and the tempo, whatever tracks were encoded before it *)
(* (two tracks of a request with the same notes have the same records),    *)
(* and the first note-on delta of a track is the note's own start tick, to  *)
(* within one tick of rounding.                                            *)
ThmC15 ==
    \A t \in DOMAIN mid :
       LET msgs == mid[t]
           n == Len(midi_tracks[t])
       IN  /\ Len(msgs) >= 2
           /\ msgs[1].type = "track_name"
           /\ msgs[2].type = "set_tempo"
           /\ \A m \in 3..Len(msgs) : msgs[m].type \notin {"track_name", "set_tempo"}
           /\ Finished(t) =>
                 /\ Len(msgs) = 2 * n + 3
                 /\ \A k \in 1..n :
                       /\ msgs[2 * k + 1].type = "note_on"
                       /\ msgs[2 * k + 2].type = "note_off"
                       /\ msgs[2 * k + 2].note = msgs[2 * k + 1].note
                 /\ msgs[2 * n + 3].type = "end_of_track"
                 /\ msgs[2 * n + 3].time = 0
                 /\ n > 0 => Abs(msgs[3].time
                                 - NearestTick(StableOrder(midi_tracks[t])[1].start_time,
                                               tempo_bpm)) <= 1
                 /\ \A u \in DOMAIN mid :
                       (Finished(u) /\ midi_tracks[u] = midi_tracks[t]) => mid[u] = msgs

(* Two tracks with the same single note starting at 0.25 s were encoded:
   the second track's note-on has delta 240 again, although the cursor of
   the first track ended at 326. *)
WitC15 ==
    /\ epc = "saved"
    /\ tempo_bpm = 120
    /\ Len(mid) = 2
    /\ midi_tracks[1] = <<[start_time |-> 250, duration |-> 90, pitch |-> 60, velocity |-> 90]>>
    /\ midi_tracks[2] = midi_tracks[1]
    /\ TypesOf(mid[2]) = <<"track_name", "set_tempo", "note_on", "note_off", "end_of_track">>
    /\ mid[2][3].time = 240
    /\ mid[2][5].time = 0

(* the handled requests of one endpoint *)
Handled(endpoint) == {i \in DOMAIN log : log[i].request.endpoint = endpoint}

(* C16.  At the HTTP endpoint an audio upload in which no frame is         *)
(* accepted is answered with success, and an upload the pitch source       *)
(* cannot decode is answered with an error: the two answers differ.        *)
CexC16 ==
    \A i \in Handled("voice") :
       log[i].request.content_type[1] = "audio" =>
          /\ log[i].request.audio = "silence" => log[i].status = 200
          /\ log[i].request.audio = "undecodable" => log[i].status # 200

(* C17.  After any sequence of export requests, by the same user or by     *)
(* different users, the MIDI file named in the response of every           *)
(* successful request holds the tracks of that request.                    *)
CexC17 ==
    \A i \in Handled("export") :
       log[i].status = 200 =>
          LET filepath == <<log[i].user_id, log[i].midi_file>>
          IN  /\ filepath \in DOMAIN files
              /\ files[filepath] =
                    EncodeFile(log[i].request.midi_tracks, log[i].request.tempo_bpm)

AllRejected(fs) == \A i \in DOMAIN fs : ~IsAccepted(fs[i])

(* C18.  While every frame processed so far is rejected (frequency 0 or    *)
(* confidence below the minimum), no note is open and no note has been     *)
(* emitted; when such an input ends, of any length including none, the     *)
(* result is a success with an empty note list.                            *)
ThmC18 ==
    /\ []((pc = "loop" /\ AllRejected(frames)) =>
             current_note = None /\ midi_notes = <<>>)
    /\ [][(pc = "loop" /\ pc' = "done" /\ AllRejected(frames)) =>
             status' = "success" /\ midi_notes' = <<>>]_vars

(* Three rejected frames were processed, one unvoiced with high confidence
   and two voiced below the minimum confidence, and the result is a success
   without notes. *)
WitC18 ==
    /\ pc = "done"
    /\ status = "success"
    /\ midi_notes = <<>>
    /\ Len(frames) = 3
    /\ AllRejected(frames)
    /\ frames[1].frequency = 0 /\ frames[1].confidence = 909
    /\ frames[2].frequency = 440 /\ frames[2].confidence = 500
    /\ frames[3].frequency = 523 /\ frames[3].confidence = 500

(* a download request with these values is handled in this step *)
DownloadHandled(request) ==
    \/ Len(log') = Len(log) + 1 /\ Last(log').request = request
    \/ Len(sending') = Len(sending) + 1 /\ Last(sending').request = request

(* C19.  A download is answered with a file only when the authenticated    *)
(* user's id equals the user id of the path: every response that carries a *)
(* body, sent or being sent, is for a path of the authenticated user's own *)
(* directory.  When the ids differ the answer is 403 without a body,       *)
(* whether or not the file exists; when they are equal and the file does   *)
(* not exist the answer is 404 without a body; when they are equal and the *)
(* file exists a response for that path is started.                        *)
ThmC19 ==
    /\ [](/\ \A i \in Handled("download") :
               LET request == log[i].request
               IN  /\ request.user # request.user_id_from_path
                         => log[i].status = 403
                   /\ log[i].status = 200
                         => request.user = request.user_id_from_path
                   /\ log[i].status \in {200, 403, 404}
                   /\ log[i].status # 200 => "body" \notin DOMAIN log[i]
          /\ \A i \in DOMAIN sending :
               /\ sending[i].request.user = sending[i].request.user_id_from_path
               /\ sending[i].filepath
                     = <<sending[i].request.user, sending[i].request.filename>>)
    /\ [][\A user_id \in UserIds, filename \in DownloadNames :
            (/\ apc = "handler"
             /\ DownloadHandled([endpoint |-> "download", user |-> current_user.id,
                                 user_id_from_path |-> user_id, filename |-> filename]))
            => /\ files' = files
               /\ (current_user.id = user_id /\ <<user_id, filename>> \notin DOMAIN files)
                     => /\ Last(log').status = 404
                        /\ sending' = sending
               /\ (current_user.id = user_id /\ <<user_id, filename>> \in DOMAIN files)
                     => /\ log' = log
                        /\ Len(sending') = Len(sending) + 1
                        /\ Last(sending').filepath = <<user_id, filename>>
               /\ current_user.id # user_id
                     => /\ Last(log').status = 403
                        /\ sending' = sending]_vars

(* User u1 exported a project and user u2 then asked for u1's file, which
   exists: the answer is 403. *)
WitC19 ==
    /\ Len(log) = 2
    /\ log[1].request.endpoint = "export"
    /\ log[1].status = 200
    /\ log[1].user_id = "u1"
    /\ log[2].request.endpoint = "download"
    /\ log[2].request.user = "u2"
    /\ log[2].request.user_id_from_path = "u1"
    /\ log[2].request.filename = log[1].midi_file
    /\ <<"u1", log[2].request.filename>> \in DOMAIN files
    /\ log[2].status = 403

(* the token verifies and its claims lack the uid or the email *)
LacksClaims(token) ==
    /\ VerifyIdToken(token).kind = "claims"
    /\ VerifyIdToken(token).uid = "" \/ VerifyIdToken(token).email = ""

(* C20.  A request whose token verifies but lacks uid or email is answered *)
(* 401, like an expired or an invalid token; 500 is the answer only when   *)
(* token verification raised another error.                                *)
CexC20 ==
    \A i \in Handled("auth") :
       LET token == log[i].request.token
       IN  /\ LacksClaims(token) => log[i].status = 401
           /\ VerifyIdToken(token).kind \in {"ExpiredIdTokenError", "InvalidIdTokenError"}
                 => log[i].status = 401
           /\ log[i].status = 500 =>
                 VerifyIdToken(token).kind \notin
                    {"claims", "ExpiredIdTokenError", "InvalidIdTokenError"}

(* the end of an emitted note *)
EndOf(note) == note.start_time + note.duration

(* C21.  For every frame sequence with non-decreasing times, the emitted   *)
(* notes are in non-decreasing start-time order, every emitted note starts *)
(* at or after the end (start + duration) of the note emitted before it,   *)
(* and the note that is open starts at or after the end of the last        *)
(* emitted note: at most one note is open at any time.                     *)
ThmC21 ==
    Ordered(frames) =>
       /\ \A k \in 1..(Len(midi_notes) - 1) :
             /\ midi_notes[k + 1].start_time >= midi_notes[k].start_time
             /\ midi_notes[k + 1].start_time >= EndOf(midi_notes[k])
       /\ (pc = "loop" /\ current_note # None /\ midi_notes # <<>>)
             => current_note[1].start_time >= EndOf(Last(midi_notes))
       /\ Len(current_note) <= 1

(* Three notes were emitted from four ordered frames, each starting where
   the note before it ends. *)
WitC21 ==
    /\ pc = "done"
    /\ status = "success"
    /\ Ordered(frames)
    /\ Len(frames) = 4
    /\ Len(midi_notes) = 3
    /\ midi_notes[1].start_time = 0 /\ midi_notes[1].duration = 60
    /\ midi_notes[2].start_time = 60 /\ midi_notes[2].duration = 60
    /\ midi_notes[3].start_time = 120 /\ midi_notes[3].duration = 60
    /\ midi_notes[2].pitch # midi_notes[1].pitch
====
